---- MODULE Spec2Model ----
(***************************************************************************)
(* Model of main.py: a voltmeter that samples an ADC on a debounced button *)
(* press and shows the value on four multiplexed seven-segment displays.   *)
(*                                                                         *)
(* Three contexts share the globals: the control loop of setup() (one step *)
(* per statement, one step per pin write), the periodic timer callback     *)
(* scan_display (also one step per pin write) and the falling-edge         *)
(* callback irq_handler.  Callbacks run to completion one at a time and    *)
(* preempt the control loop between any two of its steps.                  *)
(*                                                                         *)
(* Values are exact rationals: a voltage v is held as the integer          *)
(* v * VoltDen, so that adc * 3.3 / 65535 is the integer adc * 33.         *)
(***************************************************************************)
EXTENDS Integers, Sequences, FiniteSets, TLC

(***************************************************************************)
(* Program constants                                                       *)
(***************************************************************************)
DISPLAY_COUNT == 4

DECIMAL_PRECISION == 2

digit_list_hex ==
    << 64, 121, 36, 48, 25, 18, 2, 120, 0, 16, 8, 3, 70, 33, 6, 14, 127 >>

\* adc * (3.3 / 65535) = (adc * 33) / 655350
VoltDen == 655350

VoltNum == 33

\* time.ticks_ms() counts modulo 2^30
TicksPeriod == 1073741824

(***************************************************************************)
(* Bounds of the model                                                     *)
(***************************************************************************)
\* elapsed time stops at MaxTime milliseconds
MaxTime == 450

\* time passes in steps of these sizes (milliseconds)
TimeSteps == {50, 201}

\* the raw readings the ADC may return
AdcSamples == {0, 20000, 65535}

\* the values display_voltage_value is applied to in SpecRender, times VoltDen
\* (0.00, 0.06, 3.30, 9.88, 12.34)
RenderInputs == {0, 39321, 2162655, 6474858, 8087019}

\* in SpecWrap the tick counter starts this many milliseconds before it wraps
WrapLead == 100

\* the falling edges of the debounce scenario (tick times, milliseconds):
\* edges at 0, 50 and 250, and one more inside the window the third one opens
EdgeSchedule == << 0, 50, 250, 300 >>

Positions == 0 .. (DISPLAY_COUNT - 1)

Bit == {0, 1}

(***************************************************************************)
(* Pure helpers                                                            *)
(***************************************************************************)
RECURSIVE Pow(_, _)
Pow(b, e) == IF e = 0 THEN 1 ELSE b * Pow(b, e - 1)

\* (mask >> i) & 1
BitOf(mask, i) == (mask \div Pow(2, i)) % 2

DigitChars == << "0", "1", "2", "3", "4", "5", "6", "7", "8", "9" >>

\* int(char) for a digit character
IntOfChar(c) == CHOOSE d \in 0 .. 9 : DigitChars[d + 1] = c

\* str(n) for n >= 0
RECURSIVE IntDigits(_)
IntDigits(n) ==
    IF n < 10 THEN << DigitChars[n + 1] >>
    ELSE Append(IntDigits(n \div 10), DigitChars[(n % 10) + 1])

\* num / den rounded to the nearest integer, ties to even (num >= 0)
RoundHalfEven(num, den) ==
    LET q == num \div den
        r == num % den
    IN  IF 2 * r < den THEN q
        ELSE IF 2 * r > den THEN q + 1
        ELSE IF q % 2 = 0 THEN q ELSE q + 1

\* f"{value:.2f}" for value = v / VoltDen >= 0
FormatFixed2(v) ==
    LET cents == RoundHalfEven(v * 100, VoltDen)
    IN  IntDigits(cents \div 100)
          \o << "." >>
          \o << DigitChars[((cents \div 10) % 10) + 1], DigitChars[(cents % 10) + 1] >>

\* str_value.index('.')  (0-based)
IndexOfPoint(s) == (CHOOSE i \in 1 .. Len(s) : s[i] = "." /\ \A j \in 1 .. (i - 1) : s[j] # ".") - 1

\* position = len(str_value) - 2
StartPosition(s) == Len(s) - 2

\* a slip: the index of the '.' itself, counted from the left
DecimalPointPositionFromLeft(s) == IndexOfPoint(s)

\* decimal_point_position = len(str_value) - str_value.index('.')
DecimalPointPosition(s) == Len(s) - IndexOfPoint(s)

\* a slip: the test without the - 1
DpEnableAtPoint(position, dpp) == position = dpp

\* dp_enable = (position == decimal_point_position - 1)
DpEnable(position, dpp) == position = dpp - 1

\* int((display_value // math.pow(10, current_display_index))) % 10
ExtractDigit(value, index) == (value \div (VoltDen * Pow(10, index))) % 10

\* a slip: the decimal point one position too low
ScanDpEnableBelow(index) == index = DECIMAL_PRECISION - 1 /\ 0 # DECIMAL_PRECISION

\* current_display_index == DECIMAL_PRECISION and 0 != DECIMAL_PRECISION
ScanDpEnable(index) == index = DECIMAL_PRECISION /\ 0 # DECIMAL_PRECISION

\* a slip: the wrap test as <= 0, which never shows position 0
NextDisplayIndexSkipZero(index) ==
    IF index - 1 <= 0 THEN DISPLAY_COUNT - 1 ELSE index - 1

\* a slip: the wrap goes to DISPLAY_COUNT, one past the bank
NextDisplayIndexWrapHigh(index) ==
    IF index - 1 < 0 THEN DISPLAY_COUNT ELSE index - 1

\* current_display_index after a tick, lines 103-105
NextDisplayIndex(index) ==
    IF index - 1 < 0 THEN DISPLAY_COUNT - 1 ELSE index - 1

\* time.ticks_ms() at elapsed time t, for a counter that stood at base at
\* elapsed time 0
TicksAt(base, t) == (base + t) % TicksPeriod

\* a slip: the window test as >= 200
DebouncedInclusive(delta) == delta >= 200

\* if button_press_delta > 200
Debounced(delta) == delta > 200

\* the value read_analogue_voltage returns for a raw reading
ReadAnalogueVoltage(adc) == adc * VoltNum

\* a slip: only the upper end of the table is checked
DigitRejectedAboveOnly(digit_value) == digit_value > Len(digit_list_hex) - 1

\* digit_value < 0 or digit_value > len(digit_list_hex) - 1
DigitRejected(digit_value) ==
    digit_value < 0 \/ digit_value > Len(digit_list_hex) - 1

\* digit_list_hex[digit_value], with Python's indexing from the end for a
\* negative index
Mask(digit_value) ==
    digit_list_hex[IF digit_value < 0
                   THEN Len(digit_list_hex) + digit_value + 1
                   ELSE digit_value + 1]

\* a slip: the displays are not turned off before the segments change
SelectOffSkipped(sel, i) == sel

\* a slip: the select line is toggled instead of driven low
SelectOffToggled(sel, i) == [sel EXCEPT ![i] = 1 - sel[i]]

\* pin.value(0) on display_select_pins[i]
SelectOff(sel, i) == [sel EXCEPT ![i] = 0]

\* segment_pins[i].value((mask >> i) & 1)
SegmentWrite(seg, i, mask) == [seg EXCEPT ![i] = BitOf(mask, i)]

\* segment_pins[7].value(0 if dp_enable else 1)
DpWrite(seg, dp_enable) == [seg EXCEPT ![7] = IF dp_enable THEN 0 ELSE 1]

\* pin.value(1) on display_select_pins[i]
SelectOn(sel, i) == [sel EXCEPT ![i] = 1]

\* the segment lines display_digit leaves for a digit and a decimal-point flag
SegmentsOf(digit_value, dp_enable) ==
    [i \in 0 .. 7 |->
        IF i = 7 THEN (IF dp_enable THEN 0 ELSE 1) ELSE BitOf(Mask(digit_value), i)]

(***************************************************************************)
(* State                                                                   *)
(***************************************************************************)
VARIABLES
    \* globals of main.py
    voltage_value, display_value, last_button_time_stamp, button_pressed,
    segment_pins, display_select_pins, current_display_index, display_timer,
    \* milliseconds elapsed since the initial state, and the tick counter's
    \* value in the initial state
    now, tick_base,
    \* control loop: position in setup()'s loop and in display_voltage_value,
    \* its locals, and the arguments and loop index of its display_digit call
    pc, str_value, ci, position, decimal_point_position, dd, k,
    \* scan_display: position in the callback and its display_digit loop index
    ipc, ik,
    \* history: cursors seen at the start of the last ticks
    scan_log,
    \* history: the edges delivered so far while they follow EdgeSchedule
    edge_trace, off_schedule,
    \* history: an edge was accepted and no ADC sample was taken since
    unsampled,
    \* history: the display_digit calls of the latest display_voltage_value
    calls,
    \* history: the value and pins at the latest return of
    \* display_voltage_value, forgotten at the next scan tick
    ret,
    \* history: the elapsed time of the latest accepted edge (-1: none yet)
    accepted_at,
    \* history: an edge that came more than 200 ms of elapsed time after the
    \* latest accepted edge was rejected
    dropped_late,
    \* history: what the current loop iteration read at line 184 and the
    \* number of ADC samples it has taken
    iter

globals ==
    << voltage_value, display_value, last_button_time_stamp, button_pressed,
       segment_pins, display_select_pins, current_display_index, display_timer >>

locals == << str_value, ci, position, decimal_point_position, dd, k >>

history == << scan_log, edge_trace, off_schedule, unsampled, calls, ret >>

edge_history == << accepted_at, dropped_late >>

vars == << globals, now, tick_base, pc, locals, ipc, ik, history, edge_history, iter >>

NoIteration == [read |-> FALSE, samples |-> 0]

\* time.ticks_ms() at elapsed time t
TicksMs(t) == TicksAt(tick_base, t)

NoCall == [digit_value |-> 0, digit_index |-> 0, dp_enable |-> FALSE]

\* setup(), lines 168-178: select lines low, segment lines high
PinsAfterSetup ==
    /\ display_select_pins = [i \in Positions |-> 0]
    /\ segment_pins = [i \in 0 .. 7 |-> 1]

LocalsIdle ==
    /\ str_value = << >>
    /\ ci = 0
    /\ position = 0
    /\ decimal_point_position = 0
    /\ dd = NoCall
    /\ k = 0

HistoryEmpty ==
    /\ scan_log = << >>
    /\ edge_trace = << >>
    /\ off_schedule = FALSE
    /\ unsampled = FALSE
    /\ calls = << >>
    /\ ret = << >>
    /\ accepted_at = -1
    /\ dropped_late = FALSE
    /\ iter = NoIteration

\* the state when setup() enters its loop
Init ==
    /\ voltage_value = 0
    /\ display_value = 0
    /\ last_button_time_stamp = 0
    /\ button_pressed = FALSE
    /\ PinsAfterSetup
    /\ current_display_index = DISPLAY_COUNT - 1
    /\ display_timer = TRUE
    /\ now = 0
    /\ tick_base = 0
    /\ pc = "poll"
    /\ LocalsIdle
    /\ ipc = "idle"
    /\ ik = 0
    /\ HistoryEmpty

(***************************************************************************)
(* display_digit, one pin write per step.  ph is the place in the function *)
(* ("dd_off", "dd_seg", "dd_dp", "dd_sel", then "dd_ret"), i the index of  *)
(* its current loop, d its arguments.                                      *)
(***************************************************************************)
\* a slip: lines 113-114 left out
DigitEntrySkipOff(d) == IF DigitRejected(d.digit_value) THEN "dd_ret" ELSE "dd_seg"

\* line 110-111
DigitEntry(d) == IF DigitRejected(d.digit_value) THEN "dd_ret" ELSE "dd_off"

\* lines 113-114
DigitOff(i, d, seg, sel) ==
    [ph  |-> IF i = DISPLAY_COUNT - 1 THEN "dd_seg" ELSE "dd_off",
     i   |-> IF i = DISPLAY_COUNT - 1 THEN 0 ELSE i + 1,
     seg |-> seg,
     sel |-> SelectOff(sel, i)]

\* lines 116-118
DigitSeg(i, d, seg, sel) ==
    [ph  |-> IF i = 6 THEN "dd_dp" ELSE "dd_seg",
     i   |-> IF i = 6 THEN 0 ELSE i + 1,
     seg |-> SegmentWrite(seg, i, Mask(d.digit_value)),
     sel |-> sel]

\* line 120
DigitDp(i, d, seg, sel) ==
    [ph  |-> "dd_sel",
     i   |-> 0,
     seg |-> DpWrite(seg, d.dp_enable),
     sel |-> sel]

\* lines 122-126
DigitSel(i, d, seg, sel) ==
    IF d.digit_index = -1
    THEN [ph  |-> IF i = DISPLAY_COUNT - 1 THEN "dd_ret" ELSE "dd_sel",
          i   |-> IF i = DISPLAY_COUNT - 1 THEN 0 ELSE i + 1,
          seg |-> seg,
          sel |-> SelectOn(sel, i)]
    ELSE IF 0 <= d.digit_index /\ d.digit_index < DISPLAY_COUNT
    THEN [ph |-> "dd_ret", i |-> 0, seg |-> seg, sel |-> SelectOn(sel, d.digit_index)]
    ELSE [ph |-> "dd_ret", i |-> 0, seg |-> seg, sel |-> sel]

DigitStep(ph, i, d, seg, sel) ==
    CASE ph = "dd_off" -> DigitOff(i, d, seg, sel)
      [] ph = "dd_seg" -> DigitSeg(i, d, seg, sel)
      [] ph = "dd_dp"  -> DigitDp(i, d, seg, sel)
      [] ph = "dd_sel" -> DigitSel(i, d, seg, sel)

DigitPhases == {"dd_off", "dd_seg", "dd_dp", "dd_sel"}

\* a slip: the timer is left running
DisableDisplayTimerSkipped == display_timer

\* display_timer.deinit()
DisableDisplayTimer == FALSE

\* display_timer.init(period=30, mode=Timer.PERIODIC, callback=scan_display)
EnableDisplayTimer == TRUE

(***************************************************************************)
(* The control loop, lines 183-194.  A step is taken only while no         *)
(* callback is running (ipc = "idle").                                     *)
(***************************************************************************)
\* a slip: the test of line 184 negated
PollTargetInverted(flag) == IF flag THEN "dvv_disable" ELSE "sample"

\* line 184: where the loop goes after reading button_pressed
PollTarget(flag) == IF flag THEN "sample" ELSE "dvv_disable"

\* a slip: the batch write restarts the scan at the top position
RenderCursorReset(index) == DISPLAY_COUNT - 1

\* current_display_index after display_voltage_value, which has no
\* assignment to it
RenderCursor(index) == index

\* if button_pressed:
Poll ==
    /\ pc = "poll" /\ ipc = "idle"
    /\ pc' = PollTarget(button_pressed)
    /\ UNCHANGED << globals, now, locals, ipc, ik, history >>
    /\ UNCHANGED << tick_base, edge_history >>
    /\ iter' = [read |-> button_pressed, samples |-> 0]

\* voltage, milliVolt = read_analogue_voltage(adc_pin); voltage_value = voltage
Sample ==
    /\ pc = "sample" /\ ipc = "idle"
    /\ \E adc \in AdcSamples : voltage_value' = ReadAnalogueVoltage(adc)
    /\ unsampled' = FALSE
    /\ pc' = "report"
    /\ UNCHANGED << display_value, last_button_time_stamp, button_pressed,
                    segment_pins, display_select_pins, current_display_index,
                    display_timer, now, locals, ipc, ik,
                    scan_log, edge_trace, off_schedule, calls, ret >>
    /\ UNCHANGED << tick_base, edge_history >>
    /\ iter' = [iter EXCEPT !.samples = @ + 1]

\* print(f"Voltage: {milliVolt:.2f}mV"): console output, no state of the model
Report ==
    /\ pc = "report" /\ ipc = "idle"
    /\ pc' = "clear"
    /\ UNCHANGED << globals, now, locals, ipc, ik, history >>
    /\ UNCHANGED << tick_base, edge_history >>
    /\ UNCHANGED iter

\* button_pressed = False
Clear ==
    /\ pc = "clear" /\ ipc = "idle"
    /\ button_pressed' = FALSE
    /\ pc' = "dvv_disable"
    /\ UNCHANGED << voltage_value, display_value, last_button_time_stamp,
                    segment_pins, display_select_pins, current_display_index,
                    display_timer, now, locals, ipc, ik, history >>
    /\ UNCHANGED << tick_base, edge_history >>
    /\ UNCHANGED iter

(***************************************************************************)
(* display_voltage_value(voltage_value), lines 129-145                     *)
(***************************************************************************)
\* lines 130-135
DvvDisable ==
    /\ pc = "dvv_disable" /\ ipc = "idle"
    /\ display_timer' = DisableDisplayTimer
    /\ str_value' = FormatFixed2(voltage_value)
    /\ position' = StartPosition(str_value')
    /\ decimal_point_position' = DecimalPointPosition(str_value')
    /\ ci' = 1
    /\ calls' = << >>
    /\ pc' = "dvv_loop"
    /\ UNCHANGED << voltage_value, display_value, last_button_time_stamp,
                    button_pressed, segment_pins, display_select_pins,
                    current_display_index, now, dd, k, ipc, ik,
                    scan_log, edge_trace, off_schedule, unsampled, ret >>
    /\ UNCHANGED << tick_base, edge_history >>
    /\ UNCHANGED iter

\* lines 137-142: the head of the for loop, up to the call of display_digit
DvvLoop ==
    /\ pc = "dvv_loop" /\ ipc = "idle"
    /\ IF ci > Len(str_value)
       THEN /\ pc' = "dvv_enable"
            /\ UNCHANGED << ci, dd, calls >>
       ELSE IF str_value[ci] = "."
       THEN /\ ci' = ci + 1
            /\ UNCHANGED << pc, dd, calls >>
       ELSE /\ dd' = [digit_value |-> IntOfChar(str_value[ci]),
                      digit_index |-> position,
                      dp_enable   |-> DpEnable(position, decimal_point_position)]
            /\ calls' = Append(calls, dd')
            /\ pc' = "dd_check"
            /\ UNCHANGED ci
    /\ UNCHANGED << globals, now, str_value, position, decimal_point_position,
                    k, ipc, ik, scan_log, edge_trace, off_schedule, unsampled, ret >>
    /\ UNCHANGED << tick_base, edge_history >>
    /\ UNCHANGED iter

\* display_digit, lines 110-111
MainDigitCheck ==
    /\ pc = "dd_check" /\ ipc = "idle"
    /\ pc' = DigitEntry(dd)
    /\ k' = 0
    /\ UNCHANGED << globals, now, str_value, ci, position,
                    decimal_point_position, dd, ipc, ik, history >>
    /\ UNCHANGED << tick_base, edge_history >>
    /\ UNCHANGED iter

\* display_digit, lines 113-126: one pin write
MainDigitWrite ==
    /\ pc \in DigitPhases /\ ipc = "idle"
    /\ LET r == DigitStep(pc, k, dd, segment_pins, display_select_pins)
       IN  /\ pc' = r.ph
           /\ k' = r.i
           /\ segment_pins' = r.seg
           /\ display_select_pins' = r.sel
    /\ UNCHANGED << voltage_value, display_value, last_button_time_stamp,
                    button_pressed, current_display_index, display_timer,
                    now, str_value, ci, position, decimal_point_position, dd,
                    ipc, ik, history >>
    /\ UNCHANGED << tick_base, edge_history >>
    /\ UNCHANGED iter

\* line 143, and the next iteration of the for loop
MainDigitReturn ==
    /\ pc = "dd_ret" /\ ipc = "idle"
    /\ position' = position - 1
    /\ ci' = ci + 1
    /\ pc' = "dvv_loop"
    /\ UNCHANGED << globals, now, str_value, decimal_point_position, dd, k,
                    ipc, ik, history >>
    /\ UNCHANGED << tick_base, edge_history >>
    /\ UNCHANGED iter

\* line 145, and the return to the control loop
DvvEnable ==
    /\ pc = "dvv_enable" /\ ipc = "idle"
    /\ display_timer' = EnableDisplayTimer
    /\ current_display_index' = RenderCursor(current_display_index)
    /\ ret' = << [value |-> voltage_value, seg |-> segment_pins,
                  sel |-> display_select_pins] >>
    /\ str_value' = << >>
    /\ ci' = 0
    /\ position' = 0
    /\ decimal_point_position' = 0
    /\ dd' = NoCall
    /\ k' = 0
    /\ pc' = "poll"
    /\ UNCHANGED << voltage_value, display_value, last_button_time_stamp,
                    button_pressed, segment_pins, display_select_pins,
                    now, ipc, ik,
                    scan_log, edge_trace, off_schedule, unsampled, calls >>
    /\ UNCHANGED << tick_base, edge_history >>
    /\ iter' = NoIteration

(***************************************************************************)
(* scan_display, lines 94-105: the timer callback                          *)
(***************************************************************************)
\* the arguments of the display_digit call of lines 98-101
ScanCall ==
    [digit_value |-> ExtractDigit(display_value, current_display_index),
     digit_index |-> current_display_index,
     dp_enable   |-> ScanDpEnable(current_display_index)]

\* the last DISPLAY_COUNT cursors, the newest last
Window(log, c) ==
    IF Len(log) < DISPLAY_COUNT THEN Append(log, c) ELSE Append(Tail(log), c)

\* the timer fires: lines 98-101 up to the check of display_digit
ScanEnter ==
    /\ ipc = "idle" /\ display_timer
    /\ ipc' = IF DigitEntry(ScanCall) = "dd_ret" THEN "advance" ELSE "dd_off"
    /\ ik' = 0
    /\ scan_log' = Window(scan_log, current_display_index)
    /\ ret' = << >>
    /\ UNCHANGED << globals, now, pc, locals,
                    edge_trace, off_schedule, unsampled, calls >>
    /\ UNCHANGED << tick_base, edge_history >>
    /\ UNCHANGED iter

\* display_digit, lines 113-126: one pin write
ScanDigitWrite ==
    /\ ipc \in DigitPhases
    /\ LET r == DigitStep(ipc, ik, ScanCall, segment_pins, display_select_pins)
       IN  /\ ipc' = IF r.ph = "dd_ret" THEN "advance" ELSE r.ph
           /\ ik' = r.i
           /\ segment_pins' = r.seg
           /\ display_select_pins' = r.sel
    /\ UNCHANGED << voltage_value, display_value, last_button_time_stamp,
                    button_pressed, current_display_index, display_timer,
                    now, pc, locals, history >>
    /\ UNCHANGED << tick_base, edge_history >>
    /\ UNCHANGED iter

\* lines 103-105
ScanAdvance ==
    /\ ipc = "advance"
    /\ current_display_index' = NextDisplayIndex(current_display_index)
    /\ ipc' = "idle"
    /\ UNCHANGED << voltage_value, display_value, last_button_time_stamp,
                    button_pressed, segment_pins, display_select_pins,
                    display_timer, now, pc, locals, ik, history >>
    /\ UNCHANGED << tick_base, edge_history >>
    /\ UNCHANGED iter

(***************************************************************************)
(* irq_handler, lines 148-157: the falling-edge callback                   *)
(***************************************************************************)
\* a slip: the timestamp moves on every edge, accepted or not
StampEveryEdge(cur, last) == cur

\* last_button_time_stamp after an edge at tick time cur
StampAfterEdge(cur, last) ==
    IF Debounced(cur - last) THEN cur ELSE last

\* button_pressed after an edge at tick time cur
FlagAfterEdge(cur, last, flag) ==
    IF Debounced(cur - last) THEN TRUE ELSE flag

\* the edge is the next one of EdgeSchedule
OnSchedule(cur) ==
    /\ ~off_schedule
    /\ Len(edge_trace) < Len(EdgeSchedule)
    /\ EdgeSchedule[Len(edge_trace) + 1] = cur

IrqHandler ==
    /\ ipc = "idle"
    /\ LET cur == TicksMs(now)
       IN  /\ last_button_time_stamp' = StampAfterEdge(cur, last_button_time_stamp)
           /\ button_pressed' = FlagAfterEdge(cur, last_button_time_stamp, button_pressed)
           /\ unsampled' = (unsampled \/ Debounced(cur - last_button_time_stamp))
           /\ accepted_at' = IF Debounced(cur - last_button_time_stamp)
                             THEN now ELSE accepted_at
           /\ dropped_late' = (dropped_late
                                 \/ (/\ accepted_at >= 0
                                     /\ now - accepted_at > 200
                                     /\ ~Debounced(cur - last_button_time_stamp)))
           /\ IF OnSchedule(cur)
              THEN /\ edge_trace' = Append(edge_trace,
                          [t |-> cur,
                           accepted |-> Debounced(cur - last_button_time_stamp),
                           flag_before |-> button_pressed,
                           flag_after |-> button_pressed',
                           stamp_before |-> last_button_time_stamp,
                           stamp_after |-> last_button_time_stamp'])
                   /\ UNCHANGED off_schedule
              ELSE /\ edge_trace' = << >>
                   /\ off_schedule' = TRUE
    /\ UNCHANGED << voltage_value, display_value, segment_pins,
                    display_select_pins, current_display_index, display_timer,
                    now, pc, locals, ipc, ik, scan_log, calls, ret >>
    /\ UNCHANGED << tick_base, iter >>

(***************************************************************************)
(* Time                                                                    *)
(***************************************************************************)
Advance ==
    /\ ipc = "idle"
    /\ \E d \in TimeSteps :
          /\ now + d <= MaxTime
          /\ now' = now + d
    /\ UNCHANGED << globals, pc, locals, ipc, ik, history >>
    /\ UNCHANGED << tick_base, edge_history >>
    /\ UNCHANGED iter

(***************************************************************************)
(* The program                                                             *)
(***************************************************************************)
Next ==
    \/ Poll
    \/ Sample
    \/ Report
    \/ Clear
    \/ DvvDisable
    \/ DvvLoop
    \/ MainDigitCheck
    \/ MainDigitWrite
    \/ MainDigitReturn
    \/ DvvEnable
    \/ ScanEnter
    \/ ScanDigitWrite
    \/ ScanAdvance
    \/ IrqHandler
    \/ Advance

Spec == Init /\ [][Next]_vars

(***************************************************************************)
(* display_voltage_value alone: applied again and again to one value, from *)
(* any pin state, with no callback running.                                *)
(***************************************************************************)
InitRender ==
    /\ voltage_value \in RenderInputs
    /\ display_value = 0
    /\ last_button_time_stamp = 0
    /\ button_pressed = FALSE
    /\ display_select_pins \in [Positions -> Bit]
    /\ segment_pins \in [0 .. 7 -> Bit]
    /\ current_display_index = DISPLAY_COUNT - 1
    /\ display_timer = TRUE
    /\ now = 0
    /\ tick_base = 0
    /\ pc = "dvv_disable"
    /\ LocalsIdle
    /\ ipc = "idle"
    /\ ik = 0
    /\ HistoryEmpty

NextRender ==
    \/ Poll
    \/ DvvDisable
    \/ DvvLoop
    \/ MainDigitCheck
    \/ MainDigitWrite
    \/ MainDigitReturn
    \/ DvvEnable

SpecRender == InitRender /\ [][NextRender]_vars

(***************************************************************************)
(* display_digit alone: one call with any arguments, from any select-line  *)
(* state.                                                                  *)
(***************************************************************************)
\* digit values around both ends of the table
DigitInputs == {-2, -1, 0, 8, 16, 17, 18}

\* the positions, the broadcast index and an index past the bank
IndexInputs == {-1, 0, 1, 2, 3, 4}

InitDigit ==
    /\ voltage_value = 0
    /\ display_value = 0
    /\ last_button_time_stamp = 0
    /\ button_pressed = FALSE
    /\ display_select_pins \in [Positions -> Bit]
    /\ segment_pins \in {SegmentsOf(16, FALSE), SegmentsOf(8, TRUE), SegmentsOf(2, FALSE)}
    /\ current_display_index = DISPLAY_COUNT - 1
    /\ display_timer = FALSE
    /\ now = 0
    /\ tick_base = 0
    /\ pc = "dd_check"
    /\ str_value = << >>
    /\ ci = 0
    /\ position = 0
    /\ decimal_point_position = 0
    /\ dd \in [digit_value : DigitInputs, digit_index : IndexInputs, dp_enable : BOOLEAN]
    /\ k = 0
    /\ ipc = "idle"
    /\ ik = 0
    /\ HistoryEmpty

NextDigit ==
    \/ MainDigitCheck
    \/ MainDigitWrite

SpecDigit == InitDigit /\ [][NextDigit]_vars

(***************************************************************************)
(* The control loop and the timer callback with no press: the loop keeps   *)
(* running, a callback that has started runs to its end, and a timer left  *)
(* enabled fires.  init() starts the 30 ms period afresh, so a timer that  *)
(* is stopped and started again and again is owed no tick.                 *)
(***************************************************************************)
LoopStep ==
    \/ Poll
    \/ DvvDisable
    \/ DvvLoop
    \/ MainDigitCheck
    \/ MainDigitWrite
    \/ MainDigitReturn
    \/ DvvEnable

NextLive ==
    \/ LoopStep
    \/ ScanEnter
    \/ ScanDigitWrite
    \/ ScanAdvance

SpecLive ==
    /\ Init
    /\ [][NextLive]_vars
    /\ WF_vars(LoopStep)
    /\ WF_vars(ScanEnter)
    /\ WF_vars(ScanDigitWrite)
    /\ WF_vars(ScanAdvance)

(***************************************************************************)
(* The program shortly before the tick counter wraps: no press was         *)
(* accepted and no tick ran so far, the loop has just rendered 0.00 and is *)
(* at the top of its next iteration.                                       *)
(***************************************************************************)
\* the display_digit calls of display_voltage_value(0)
CallsOfZero ==
    << [digit_value |-> 0, digit_index |-> 2, dp_enable |-> TRUE],
       [digit_value |-> 0, digit_index |-> 1, dp_enable |-> FALSE],
       [digit_value |-> 0, digit_index |-> 0, dp_enable |-> FALSE] >>

\* the loop is at line 184 after display_voltage_value(0) returned
RenderedZero ==
    /\ voltage_value = 0
    /\ display_value = 0
    /\ last_button_time_stamp = 0
    /\ button_pressed = FALSE
    /\ display_select_pins = [i \in Positions |-> IF i = 0 THEN 1 ELSE 0]
    /\ segment_pins = SegmentsOf(0, FALSE)
    /\ current_display_index = DISPLAY_COUNT - 1
    /\ display_timer = TRUE
    /\ pc = "poll"
    /\ LocalsIdle
    /\ ipc = "idle"
    /\ ik = 0
    /\ scan_log = << >>
    /\ edge_trace = << >>
    /\ off_schedule = FALSE
    /\ unsampled = FALSE
    /\ calls = CallsOfZero
    /\ ret = << [value |-> 0, seg |-> segment_pins, sel |-> display_select_pins] >>
    /\ accepted_at = -1
    /\ dropped_late = FALSE
    /\ iter = NoIteration

InitWrap ==
    /\ RenderedZero
    /\ now = 0
    /\ tick_base = TicksPeriod - WrapLead

SpecWrap == InitWrap /\ [][Next]_vars

(***************************************************************************)
(* Properties                                                              *)
(***************************************************************************)
HighSelects == {i \in Positions : display_select_pins[i] = 1}

\* the control loop is between disable_display_timer() and the return of
\* enable_display_timer() in display_voltage_value
InBracket ==
    pc \in ({"dvv_loop", "dd_check", "dd_ret", "dvv_enable"} \cup DigitPhases)

CursorBefore(c) == IF c = 0 THEN DISPLAY_COUNT - 1 ELSE c - 1

\* C1: the cursors seen at the start of successive ticks are N-1, N-2, ...,
\* 0, N-1, ...: the first tick sees N-1, each tick sees the cursor one below
\* the one before it (N-1 after 0), the next tick will see the one below the
\* latest, and any N consecutive ticks see every position exactly once,
\* whatever the edge callback and the control loop do in between.
C1_CursorCycle ==
    /\ scan_log = << >> => current_display_index = DISPLAY_COUNT - 1
    /\ (scan_log # << >> /\ Len(scan_log) < DISPLAY_COUNT)
          => scan_log[1] = DISPLAY_COUNT - 1
    /\ \A i \in 1 .. (Len(scan_log) - 1) :
          scan_log[i + 1] = CursorBefore(scan_log[i])
    /\ (scan_log # << >> /\ ipc = "idle")
          => current_display_index = CursorBefore(scan_log[Len(scan_log)])
    /\ (scan_log # << >> /\ ipc # "idle")
          => current_display_index = scan_log[Len(scan_log)]
    /\ Len(scan_log) = DISPLAY_COUNT
          => /\ {scan_log[i] : i \in 1 .. DISPLAY_COUNT} = Positions
             /\ \A i, j \in 1 .. DISPLAY_COUNT :
                   scan_log[i] = scan_log[j] => i = j

\* a full cycle that wrapped, with an accepted edge and a control-loop
\* sample in between
C1_Witness ==
    /\ scan_log = << 1, 0, 3, 2 >>
    /\ ipc = "idle"
    /\ last_button_time_stamp > 0
    /\ voltage_value > 0

Accepted(n) == {i \in 1 .. n : edge_trace[i].accepted}

FlagKept(i) == edge_trace[i].flag_after = edge_trace[i].flag_before

StampKept(i) == edge_trace[i].stamp_after = edge_trace[i].stamp_before

\* C2 as stated: with edges at tick times 0, 50 and 250 from the initial
\* state, the edge at 0 is accepted and sets the flag, the edge at 50 is
\* rejected and leaves the flag unchanged, the edge at 250 is accepted and
\* sets the flag; two edges are accepted and the timestamp ends at 250.
C2_TwoAccepted ==
    /\ Len(edge_trace) >= 1
          => edge_trace[1].accepted /\ edge_trace[1].flag_after
    /\ Len(edge_trace) >= 2
          => ~edge_trace[2].accepted /\ FlagKept(2)
    /\ Len(edge_trace) >= 3
          => /\ edge_trace[3].accepted /\ edge_trace[3].flag_after
             /\ Cardinality(Accepted(3)) = 2
             /\ edge_trace[3].stamp_after = 250
    /\ Len(edge_trace) = 3 => last_button_time_stamp = 250

\* C2 amended: with edges at tick times 0, 50 and 250 from the initial
\* state, the edge at 0 is rejected (0 - 0 is not above 200) and so is the
\* edge at 50, both leaving flag and timestamp unchanged; the edge at 250 is
\* accepted and sets the flag; one edge is accepted and the timestamp ends
\* at 250.
C2_OneAccepted ==
    /\ Len(edge_trace) >= 1
          => ~edge_trace[1].accepted /\ FlagKept(1) /\ StampKept(1)
             /\ ~edge_trace[1].flag_after
    /\ Len(edge_trace) >= 2
          => ~edge_trace[2].accepted /\ FlagKept(2) /\ StampKept(2)
             /\ ~edge_trace[2].flag_after
    /\ Len(edge_trace) >= 3
          => /\ edge_trace[3].accepted /\ edge_trace[3].flag_after
             /\ Cardinality(Accepted(3)) = 1
             /\ edge_trace[3].stamp_after = 250
    /\ Len(edge_trace) = 3 => last_button_time_stamp = 250

\* exactly the edges at 0, 50 and 250 were delivered
C2_Witness ==
    /\ Len(edge_trace) = 3
    /\ edge_trace[1].t = 0 /\ edge_trace[2].t = 50 /\ edge_trace[3].t = 250
    /\ now = 250

\* C3: a call of irq_handler at tick time cur sets last_button_time_stamp
\* to cur and button_pressed to True when cur - last_button_time_stamp is
\* above 200, and otherwise leaves both as they were, flag set or not.
C3_EdgeEffect ==
    [][IrqHandler =>
         IF TicksMs(now) - last_button_time_stamp > 200
         THEN /\ last_button_time_stamp' = TicksMs(now)
              /\ button_pressed' = TRUE
         ELSE /\ last_button_time_stamp' = last_button_time_stamp
              /\ button_pressed' = button_pressed]_vars

\* an edge was accepted at 250 and the next one, at 300 with the flag still
\* set, was dropped without moving the timestamp
C3_Witness ==
    /\ Len(edge_trace) = 4
    /\ edge_trace[3].accepted
    /\ ~edge_trace[4].accepted
    /\ edge_trace[4].flag_before /\ edge_trace[4].flag_after
    /\ edge_trace[4].stamp_after = 250
    /\ last_button_time_stamp = 250

\* C4: no accepted press is lost.  An accepted edge that no ADC sample has
\* followed yet is still on record: button_pressed is set, or the control
\* loop has read it set and is about to sample.  (Otherwise the loop, which
\* samples only after reading the flag set, takes no sample for that edge.)
C4_NoLostPress ==
    unsampled => (button_pressed \/ pc = "sample")

\* C5: scan_display never executes inside the disable/enable bracket of
\* display_voltage_value: scanning is disabled exactly while the control
\* loop is inside the bracket, and no tick is in progress there.
C5_NoScanInBracket ==
    /\ InBracket => ipc = "idle"
    /\ InBracket <=> ~display_timer

\* the control loop is writing a digit inside the bracket, after ticks ran
\* and a tick would otherwise be possible
C5_Witness ==
    /\ pc = "dd_seg"
    /\ ~display_timer
    /\ Len(scan_log) = DISPLAY_COUNT
    /\ ipc = "idle"

CallDigits == [i \in 1 .. Len(calls) |-> calls[i].digit_value]

CallPositions == [i \in 1 .. Len(calls) |-> calls[i].digit_index]

PointPositions == {calls[i].digit_index : i \in {j \in 1 .. Len(calls) : calls[j].dp_enable}}

\* display_voltage_value(12.34) has made all its display_digit calls
Rendered1234 == voltage_value = 8087019 /\ pc = "dvv_enable"

\* C7 as stated: display_voltage_value(12.34) calls display_digit with
\* digits 1, 2, 3, 4 at positions 3, 2, 1, 0 in that order, the decimal
\* point enabled only in the call for position 1.
C7_PointAtOne ==
    Rendered1234 =>
        /\ CallDigits = << 1, 2, 3, 4 >>
        /\ CallPositions = << 3, 2, 1, 0 >>
        /\ PointPositions = {1}

\* C7 amended: display_voltage_value(12.34) calls display_digit with digits
\* 1, 2, 3, 4 at positions 3, 2, 1, 0 in that order, the decimal point
\* enabled only in the call for position 2 (the digit left of the '.').
C7_PointAtTwo ==
    Rendered1234 =>
        /\ CallDigits = << 1, 2, 3, 4 >>
        /\ CallPositions = << 3, 2, 1, 0 >>
        /\ PointPositions = {2}

C7_Witness == Rendered1234 /\ Len(calls) = 4

\* C8: at most one position-select line is high in every state, inside
\* display_digit and with scanning disabled included, and no call of
\* display_digit is given the broadcast index -1.
C8_AtMostOneSelect ==
    /\ Cardinality(HighSelects) <= 1
    /\ pc \in ({"dd_check", "dd_ret"} \cup DigitPhases) => dd.digit_index # -1
    /\ ScanCall.digit_index # -1

\* scanning is disabled, the control loop enters display_digit for its next
\* digit while the line of the previous digit is still high
C8_Witness ==
    /\ pc = "dd_off"
    /\ k = 0
    /\ ~display_timer
    /\ HighSelects = {2}
    /\ dd.digit_index = 1

\* C9: display_voltage_value is idempotent: when it is about to return and
\* its previous call was made with the same value, no tick in between, the
\* segment and select lines are those the previous call returned with.
C9_Idempotent ==
    (pc = "dvv_enable" /\ ret # << >> /\ ret[1].value = voltage_value)
        => /\ segment_pins = ret[1].seg
           /\ display_select_pins = ret[1].sel

\* the second call for 3.30 is about to return
C9_Witness ==
    /\ pc = "dvv_enable"
    /\ ret # << >>
    /\ ret[1].value = voltage_value
    /\ voltage_value = 2162655

\* C10: display_digit called with digit_value < 0 or digit_value > 16
\* returns at once and leaves every segment and select line as it was.
C10_RejectNoChange ==
    [][(pc = "dd_check" /\ (dd.digit_value < 0 \/ dd.digit_value > 16))
          => /\ pc' = "dd_ret"
             /\ segment_pins' = segment_pins
             /\ display_select_pins' = display_select_pins]_vars

\* a rejected call has returned with lines high that an accepted call
\* would have driven low, and segments it would have rewritten
C10_Witness ==
    /\ pc = "dd_ret"
    /\ dd.digit_value = 17
    /\ dd.digit_index = 0
    /\ HighSelects = {1, 3}
    /\ segment_pins = SegmentsOf(8, TRUE)

\* C11: last_button_time_stamp never decreases, whichever step is taken:
\* an accepted or a rejected edge, before or after the tick counter wraps,
\* a step of the control loop or of scan_display.
C11_StampMonotone ==
    [][last_button_time_stamp' >= last_button_time_stamp]_vars

\* the counter has wrapped below the timestamp of an accepted edge and an
\* edge delivered after the wrap left the timestamp where it was
C11_Witness ==
    /\ accepted_at >= 0
    /\ dropped_late
    /\ TicksMs(now) < last_button_time_stamp
    /\ last_button_time_stamp = TicksAt(tick_base, accepted_at)

\* C20: with the tick counter wrapping, no edge that arrives more than
\* 200 ms of elapsed time after the latest accepted edge is rejected.
C20_LateEdgeAccepted == ~dropped_late

\* C12: current_display_index is a valid index into the display bank,
\* 0 <= current_display_index <= N-1, when scan_display is entered, while it
\* runs and when it has returned, after any ticks, edges and loop iterations.
C12_CursorInRange ==
    current_display_index \in Positions

\* a tick has wrapped the cursor from 0 back to N-1, with an accepted edge
\* and the control loop inside a batch write
C12_Witness ==
    /\ scan_log = << 3, 2, 1, 0 >>
    /\ ipc = "idle"
    /\ current_display_index = DISPLAY_COUNT - 1
    /\ last_button_time_stamp > 0
    /\ pc = "dd_seg"

\* the arguments of the display_digit call in progress
ActiveCall == IF ipc # "idle" THEN ScanCall ELSE dd

\* C13: the pin writes of display_digit come in the order select lines low,
\* segment and decimal-point lines, selected line high: a segment or
\* decimal-point line changes only while every select line is low, and a
\* select line is raised only when the segment lines already carry the
\* mask and decimal point of the call, all other select lines being low
\* (for an index other than -1).
C13_WriteOrder ==
    [][/\ segment_pins' # segment_pins
            => HighSelects = {} /\ HighSelects' = {}
       /\ (\E i \in Positions :
               display_select_pins[i] = 0 /\ display_select_pins'[i] = 1)
            => /\ segment_pins =
                    SegmentsOf(ActiveCall.digit_value, ActiveCall.dp_enable)
               /\ segment_pins' = segment_pins
               /\ ActiveCall.digit_index # -1
                    => /\ HighSelects = {}
                       /\ HighSelects' = {ActiveCall.digit_index}]_vars

\* a tick at position 2 has lowered the line the batch write left high,
\* rewritten the segments from 1 to 0. and is about to raise line 2
C13_Witness ==
    /\ ipc = "dd_sel"
    /\ current_display_index = 2
    /\ segment_pins = SegmentsOf(0, TRUE)
    /\ HighSelects = {}
    /\ calls # << >>
    /\ calls[Len(calls)].digit_value = 1

TickLeaves(c) ==
    /\ HighSelects = {c}
    /\ \A i \in 0 .. 6 :
          segment_pins[i] = BitOf(digit_list_hex[ExtractDigit(display_value, c) + 1], i)
    /\ segment_pins[7] = 0 <=> c = 2

\* C15: a completed tick that started with cursor c leaves exactly select
\* line c high, the segment lines carrying the mask of the extracted digit
\* and the decimal point lit if and only if c = 2; the pins stay so until
\* the control loop's next batch write.
C15_TickDrivesOne ==
    /\ ipc = "advance" => TickLeaves(current_display_index)
    /\ (ipc = "idle" /\ scan_log # << >> /\ ret = << >> /\ ~InBracket)
          => TickLeaves(scan_log[Len(scan_log)])

\* a tick at cursor 2 has completed after the loop rendered a sampled
\* value: line 2 alone is high and the decimal point is lit
C15_Witness ==
    /\ ipc = "advance"
    /\ current_display_index = 2
    /\ segment_pins[7] = 0
    /\ HighSelects = {2}
    /\ voltage_value > 0
    /\ calls # << >>

\* C16: button_pressed goes from True to False only at line 193 of the
\* control loop, in an iteration that read it set and has taken exactly
\* one ADC sample; it goes from False to True in a step in which neither
\* the loop nor scan_display moves (irq_handler); and the loop takes a
\* sample only in an iteration that read the flag set, and only one.
C16_FlagDiscipline ==
    [][/\ (button_pressed /\ ~button_pressed')
            => /\ pc = "clear" /\ pc' = "dvv_disable"
               /\ ipc = "idle" /\ ipc' = "idle"
               /\ iter.read /\ iter.samples = 1
       /\ (~button_pressed /\ button_pressed')
            => /\ pc' = pc /\ iter' = iter
               /\ ipc = "idle" /\ ipc' = "idle"
       /\ iter'.samples > iter.samples
            => iter.read /\ iter.samples = 0
       /\ ~iter'.read => iter'.samples = 0]_vars

\* the loop has cleared the flag after reading it set and sampling once
C16_Witness ==
    /\ pc = "dvv_disable"
    /\ iter.read
    /\ iter.samples = 1
    /\ ~button_pressed
    /\ accepted_at >= 0

\* C17: current_display_index is changed only by the last step of
\* scan_display (so the control loop, display_voltage_value, display_digit
\* and irq_handler leave it alone and scanning resumes where it stopped),
\* and voltage_value and display_value are changed only by line 191 of the
\* control loop, never inside a callback.
C17_SingleWriter ==
    [][/\ current_display_index' # current_display_index
            => ipc = "advance" /\ ipc' = "idle" /\ pc' = pc
       /\ (voltage_value' # voltage_value \/ display_value' # display_value)
            => pc = "sample" /\ pc' = "report" /\ ipc = "idle" /\ ipc' = "idle"]_vars

\* two ticks ran, then a batch write of a sampled value returned: the
\* cursor is still where the second tick left it
C17_Witness ==
    /\ scan_log = << 3, 2 >>
    /\ ret # << >>
    /\ ret[1].value > 0
    /\ current_display_index = 1
    /\ display_timer
    /\ pc = "poll"

\* the calls that enable the decimal point, by their number in the batch
PointCalls == {j \in 1 .. Len(calls) : calls[j].dp_enable}

\* C18: display_voltage_value enables the decimal point in exactly one
\* display_digit call, the one for the digit immediately left of the '.',
\* and that call's position is 2, the one position at which scan_display
\* lights the decimal point.
C18_OnePointCall ==
    pc = "dvv_enable"
        => /\ Cardinality(PointCalls) = 1
           /\ \A j \in PointCalls :
                 /\ j = IndexOfPoint(str_value)
                 /\ str_value[j + 1] = "."
                 /\ calls[j].digit_value = IntOfChar(str_value[j])
                 /\ calls[j].digit_index = 2
           /\ \A p \in Positions : ScanDpEnable(p) <=> p \in PointPositions

\* display_voltage_value(9.88) has made its three calls
C18_Witness ==
    /\ pc = "dvv_enable"
    /\ voltage_value = 6474858
    /\ Len(calls) = 3
    /\ PointCalls = {1}

====
